---- MODULE Spec2Model ----
(***************************************************************************)
(* Model of the CIL assembly core of rustc_codegen_clr: the opcode model    *)
(* (src/cil/mod.rs), the method container and its temporary-local           *)
(* allocation pass (src/method.rs), the array type factory                  *)
(* (src/type/type_def.rs), the assembly link operation (src/assembly.rs)    *)
(* and the linker driver with its autopatch pass (src/bin/linker.rs).       *)
(*                                                                         *)
(* Values: a Type is a tuple whose first element is the variant tag, an op  *)
(* is a tuple <<tag>> or <<tag, payload>>, Option<T> is <<>> (None) or      *)
(* <<v>> (Some(v)), a Vec is a sequence, a HashMap is a function.           *)
(***************************************************************************)
EXTENDS Integers, Sequences, FiniteSets, TLC

VARIABLES
    method,          \* the Method under construction / being rewritten
    input,           \* the Method as it was when allocate_temporaries was called
    tmp_stack,       \* allocate_temporaries' local tmp_stack when the call ended
    stage,           \* "new" | "built" | "valid" | "allocated" | "panicked"
    final_assembly,  \* linker main: the assembly the inputs are folded into
    to_link,         \* linker main: the decoded .bc assemblies not yet joined
    ar_to_link,      \* linker main: the .rlib archives (each a list of units) not yet joined
    linked,          \* linker main: the input assemblies already joined, in order
    joined,          \* linker main: final_assembly as it was when autopatch was called
    phase,           \* linker main: "join" | "patched" | "exported" | "idle"
    path,            \* linker main: Option, the argument after -o, as its characters
    is_lib,          \* linker main: Option, the is_lib flag handed to the exporter
    statics,         \* linker main: the static fields added to final_assembly
    op,              \* one CILOp value that replace_target / flip_cond act on
    trail,           \* the calls applied to op so far: <<kind, from, to, op before>>
    def,             \* Option<TypeDef>: the value get_array_type last returned
    args,            \* Option: the arguments of the last call of a free function
    ret              \* Option: what that call returned (Panic if it did not return)

mvars == <<method, input, tmp_stack, stage>>
lvars == <<final_assembly, to_link, ar_to_link, linked, joined, phase, path, is_lib,
          statics>>
ovars == <<op, trail>>
dvars == <<def, args, ret>>
vars == <<method, input, tmp_stack, stage, final_assembly, to_link, ar_to_link,
          linked, joined, phase, path, is_lib, statics, op, trail, def, args, ret>>

(***************************************************************************)
(* Bounds of the model.                                                    *)
(***************************************************************************)
\* longest opcode sequence handed to Method::set_ops (besides scenario S1)
MaxOps == 3
\* label ids range over 0..MaxLabel
MaxLabel == 2
\* number of replace_target calls applied to one op
MaxCalls == 2
\* number of units (direct .bc files plus archive entries) one linker run reads
MaxUnits == 3
\* element counts handed to get_array_type range over 0..MaxCount
MaxCount == 8

None == <<>>
Some(v) == <<v>>

\* the sequences over S of length at most n
RECURSIVE SeqsUpTo(_, _)
SeqsUpTo(S, n) ==
    IF n = 0 THEN {<<>>}
    ELSE LET shorter == SeqsUpTo(S, n - 1) IN
         shorter \cup {Append(s, x) : s \in {q \in shorter : Len(q) = n - 1}, x \in S}

(***************************************************************************)
(* Types and signatures.                                                   *)
(***************************************************************************)
Void == <<"Void">>
U8 == <<"U8">>
I32 == <<"I32">>
U32 == <<"U32">>
I64 == <<"I64">>
USize == <<"USize">>
Ptr(t) == <<"Ptr", t>>
DotnetType(ref) == <<"DotnetType", ref>>

\* DotnetTypeRef::new(assembly, name_path): a value type unless set_valuetype(false)
DotnetTypeRef_new(assembly, name_path) ==
    [assembly |-> assembly, name_path |-> name_path, is_valuetype |-> TRUE]

FnSig_new(inputs, output) == [inputs |-> inputs, output |-> output]

CallSite_new(class, name, signature, is_static) ==
    [class |-> class, name |-> name, signature |-> signature, is_static |-> is_static]

\* CallSite::explicit_inputs: all inputs of a static site, all but the receiver otherwise
CallSite_explicit_inputs(site) ==
    IF site.is_static THEN site.signature.inputs
    ELSE SubSeq(site.signature.inputs, 2, Len(site.signature.inputs))

(***************************************************************************)
(* Opcode model.                                                           *)
(***************************************************************************)
BranchTags == {"GoTo", "BEq", "BNe", "BLt", "BGe", "BLe", "BZero", "BTrue"}
ConvTags == {"ConvI8", "ConvI16", "ConvI32", "ConvI64", "ConvISize", "ConvU8", "ConvU16",
             "ConvU32", "ConvU64", "ConvUSize", "ConvF32", "ConvF64"}
LDIndTags == {"LDIndI8", "LDIndI16", "LDIndI32", "LDIndI64", "LDIndISize", "LDIndF32",
              "LDIndF64", "LDIndRef"}
STIndTags == {"STIndI8", "STIndI16", "STIndI32", "STIndI64", "STIndISize", "STIndF32",
              "STIndF64"}
BinaryTags == {"Add", "AddOvf", "AddOvfUn", "And", "Div", "Rem", "Shr", "Shl", "Sub",
               "SubOvf", "SubOvfUn", "Mul", "MulOvf", "Or", "XOr", "Eq", "Lt", "Gt"}

Nop == <<"Nop">>
Ret == <<"Ret">>
Throw == <<"Throw">>
AddOp == <<"Add">>
Label(id) == <<"Label", id>>
GoTo(id) == <<"GoTo", id>>
LDLoc(i) == <<"LDLoc", i>>
LDLocA(i) == <<"LDLocA", i>>
STLoc(i) == <<"STLoc", i>>
LDArg(i) == <<"LDArg", i>>
LdcI32(v) == <<"LdcI32", v>>
LdStr(s) == <<"LdStr", s>>
Call(site) == <<"Call", site>>
CallVirt(site) == <<"CallVirt", site>>
NewObj(site) == <<"NewObj", site>>
LDFieldAdress(fd) == <<"LDFieldAdress", fd>>
LdObj(t) == <<"LdObj", t>>
STObj(t) == <<"STObj", t>>
NewTMPLocal(t) == <<"NewTMPLocal", t>>
FreeTMPLocal == <<"FreeTMPLocal">>
LoadTMPLocal == <<"LoadTMPLocal">>
LoadUnderTMPLocal(n) == <<"LoadUnderTMPLocal", n>>
LoadAdressUnderTMPLocal(n) == <<"LoadAdressUnderTMPLocal", n>>
LoadAddresOfTMPLocal == <<"LoadAddresOfTMPLocal">>
SetTMPLocal == <<"SetTMPLocal">>

\* a stack_diff that charges GoTo one pop
stack_diff_GoToPops(o) ==
    LET t == o[1] IN
    CASE t \in {"Nop", "Comment"} -> 0
      [] t = "Label" -> 0
      [] t = "GoTo" -> -1
      [] t \in {"BZero", "BTrue"} -> -1
      [] t \in {"BEq", "BNe", "BLt", "BGe", "BLe"} -> -2
      [] t \in {"LDArg", "LDArgA", "LDLoc", "LDLocA"} -> 1
      [] t \in {"LdcI32", "LdcI64", "LdcF32", "LdcF64", "LdStr", "LdNull", "SizeOf"} -> 1
      [] t \in ConvTags -> 0
      [] t \in LDIndTags -> 0
      [] t \in STIndTags -> -2
      [] t = "Pop" -> -1
      [] t = "Dup" -> 1
      [] t \in {"LDField", "LDFieldAdress"} -> 0
      [] t = "LocAlloc" -> 0
      [] t = "NewObj" -> 1 - Len(CallSite_explicit_inputs(o[2]))
      [] t = "LdObj" -> 0
      [] t = "LDStaticField" -> 1
      [] t = "STStaticField" -> -1
      [] t = "STObj" -> -2
      [] t = "STField" -> -2
      [] t \in BinaryTags -> -1
      [] t \in {"Not", "Neg"} -> 0
      [] t \in {"STLoc", "STArg"} -> -1
      [] t \in {"Call", "CallVirt"} ->
            IF o[2].signature.output = Void
            THEN 0 - Len(o[2].signature.inputs)
            ELSE 1 - Len(o[2].signature.inputs)
      [] t \in {"Throw", "Rethrow", "Ret"} -> -1
      [] t = "CpBlk" -> -3
      [] t \in {"NewTMPLocal", "FreeTMPLocal"} -> 0
      [] t \in {"LoadAddresOfTMPLocal", "LoadUnderTMPLocal", "LoadAdressUnderTMPLocal",
                "LoadTMPLocal"} -> 1
      [] t = "SetTMPLocal" -> -1
      [] t = "LoadGlobalAllocPtr" -> 1

\* a stack_diff that lets every call push a result
stack_diff_VoidCallPushes(o) ==
    LET t == o[1] IN
    CASE t \in {"Nop", "Comment"} -> 0
      [] t \in {"Label", "GoTo"} -> 0
      [] t \in {"BZero", "BTrue"} -> -1
      [] t \in {"BEq", "BNe", "BLt", "BGe", "BLe"} -> -2
      [] t \in {"LDArg", "LDArgA", "LDLoc", "LDLocA"} -> 1
      [] t \in {"LdcI32", "LdcI64", "LdcF32", "LdcF64", "LdStr", "LdNull", "SizeOf"} -> 1
      [] t \in ConvTags -> 0
      [] t \in LDIndTags -> 0
      [] t \in STIndTags -> -2
      [] t = "Pop" -> -1
      [] t = "Dup" -> 1
      [] t \in {"LDField", "LDFieldAdress"} -> 0
      [] t = "LocAlloc" -> 0
      [] t = "NewObj" -> 1 - Len(CallSite_explicit_inputs(o[2]))
      [] t = "LdObj" -> 0
      [] t = "LDStaticField" -> 1
      [] t = "STStaticField" -> -1
      [] t = "STObj" -> -2
      [] t = "STField" -> -2
      [] t \in BinaryTags -> -1
      [] t \in {"Not", "Neg"} -> 0
      [] t \in {"STLoc", "STArg"} -> -1
      [] t \in {"Call", "CallVirt"} ->
            1 - Len(o[2].signature.inputs)
      [] t \in {"Throw", "Rethrow", "Ret"} -> -1
      [] t = "CpBlk" -> -3
      [] t \in {"NewTMPLocal", "FreeTMPLocal"} -> 0
      [] t \in {"LoadAddresOfTMPLocal", "LoadUnderTMPLocal", "LoadAdressUnderTMPLocal",
                "LoadTMPLocal"} -> 1
      [] t = "SetTMPLocal" -> -1
      [] t = "LoadGlobalAllocPtr" -> 1

\* a stack_diff that lets LDLocA push nothing
stack_diff_AddressFlat(o) ==
    LET t == o[1] IN
    CASE t \in {"Nop", "Comment"} -> 0
      [] t \in {"Label", "GoTo"} -> 0
      [] t \in {"BZero", "BTrue"} -> -1
      [] t \in {"BEq", "BNe", "BLt", "BGe", "BLe"} -> -2
      [] t \in {"LDArg", "LDArgA", "LDLoc"} -> 1
      [] t = "LDLocA" -> 0
      [] t \in {"LdcI32", "LdcI64", "LdcF32", "LdcF64", "LdStr", "LdNull", "SizeOf"} -> 1
      [] t \in ConvTags -> 0
      [] t \in LDIndTags -> 0
      [] t \in STIndTags -> -2
      [] t = "Pop" -> -1
      [] t = "Dup" -> 1
      [] t \in {"LDField", "LDFieldAdress"} -> 0
      [] t = "LocAlloc" -> 0
      [] t = "NewObj" -> 1 - Len(CallSite_explicit_inputs(o[2]))
      [] t = "LdObj" -> 0
      [] t = "LDStaticField" -> 1
      [] t = "STStaticField" -> -1
      [] t = "STObj" -> -2
      [] t = "STField" -> -2
      [] t \in BinaryTags -> -1
      [] t \in {"Not", "Neg"} -> 0
      [] t \in {"STLoc", "STArg"} -> -1
      [] t \in {"Call", "CallVirt"} ->
            IF o[2].signature.output = Void
            THEN 0 - Len(o[2].signature.inputs)
            ELSE 1 - Len(o[2].signature.inputs)
      [] t \in {"Throw", "Rethrow", "Ret"} -> -1
      [] t = "CpBlk" -> -3
      [] t \in {"NewTMPLocal", "FreeTMPLocal"} -> 0
      [] t \in {"LoadAddresOfTMPLocal", "LoadUnderTMPLocal", "LoadAdressUnderTMPLocal",
                "LoadTMPLocal"} -> 1
      [] t = "SetTMPLocal" -> -1
      [] t = "LoadGlobalAllocPtr" -> 1

\* CILOp::stack_diff
stack_diff(o) ==
    LET t == o[1] IN
    CASE t \in {"Nop", "Comment"} -> 0
      [] t \in {"Label", "GoTo"} -> 0
      [] t \in {"BZero", "BTrue"} -> -1
      [] t \in {"BEq", "BNe", "BLt", "BGe", "BLe"} -> -2
      [] t \in {"LDArg", "LDArgA", "LDLoc", "LDLocA"} -> 1
      [] t \in {"LdcI32", "LdcI64", "LdcF32", "LdcF64", "LdStr", "LdNull", "SizeOf"} -> 1
      [] t \in ConvTags -> 0
      [] t \in LDIndTags -> 0
      [] t \in STIndTags -> -2
      [] t = "Pop" -> -1
      [] t = "Dup" -> 1
      [] t \in {"LDField", "LDFieldAdress"} -> 0
      [] t = "LocAlloc" -> 0
      [] t = "NewObj" -> 1 - Len(CallSite_explicit_inputs(o[2]))
      [] t = "LdObj" -> 0
      [] t = "LDStaticField" -> 1
      [] t = "STStaticField" -> -1
      [] t = "STObj" -> -2
      [] t = "STField" -> -2
      [] t \in BinaryTags -> -1
      [] t \in {"Not", "Neg"} -> 0
      [] t \in {"STLoc", "STArg"} -> -1
      [] t \in {"Call", "CallVirt"} ->
            IF o[2].signature.output = Void
            THEN 0 - Len(o[2].signature.inputs)
            ELSE 1 - Len(o[2].signature.inputs)
      [] t \in {"Throw", "Rethrow", "Ret"} -> -1
      [] t = "CpBlk" -> -3
      [] t \in {"NewTMPLocal", "FreeTMPLocal"} -> 0
      [] t \in {"LoadAddresOfTMPLocal", "LoadUnderTMPLocal", "LoadAdressUnderTMPLocal",
                "LoadTMPLocal"} -> 1
      [] t = "SetTMPLocal" -> -1
      [] t = "LoadGlobalAllocPtr" -> 1

\* CILOp::call: the call site of Call, CallVirt and NewObj
call(o) == IF o[1] \in {"Call", "CallVirt", "NewObj"} THEN Some(o[2]) ELSE None

\* a retarget that forgets to compare the old target
replace_target_Always(o, orignal, replacement) ==
    IF o[1] \in BranchTags THEN <<o[1], replacement>> ELSE o

\* a retarget that also renames labels
replace_target_Labels(o, orignal, replacement) ==
    IF o[1] \in BranchTags \cup {"Label"} /\ orignal = o[2] THEN <<o[1], replacement>>
    ELSE o

\* CILOp::replace_target
replace_target(o, orignal, replacement) ==
    IF o[1] \in BranchTags /\ orignal = o[2] THEN <<o[1], replacement>> ELSE o

\* the outcome of a todo!() or panic!(): the call does not return
Todo == <<"todo!">>

\* a flip that leaves BGe and BLe as they are
flip_cond_NoSwap(o) ==
    IF o[1] \in {"BGe", "BLe", "BEq", "BNe", "Eq"} THEN o ELSE Todo

\* CILOp::flip_cond
flip_cond(o) ==
    CASE o[1] = "BGe" -> <<"BLe", o[2]>>
      [] o[1] = "BLe" -> <<"BGe", o[2]>>
      [] o[1] = "BEq" -> <<"BEq", o[2]>>
      [] o[1] = "Eq" -> <<"Eq">>
      [] o[1] = "BNe" -> <<"BNe", o[2]>>
      [] OTHER -> Todo

(***************************************************************************)
(* Method container.                                                       *)
(***************************************************************************)
Method_new(access, is_static, sig, name, locals) ==
    [access |-> access, is_static |-> is_static, sig |-> sig, name |-> name,
     locals |-> locals, ops |-> <<>>, attributes |-> <<>>]

set_ops(m, ops) == [m EXCEPT !.ops = ops]

\* a closing step that appends a return whatever the last op is
ensure_valid_Always(m) == [m EXCEPT !.ops = Append(m.ops, Ret)]

\* Method::ensure_valid
ensure_valid(m) ==
    IF Len(m.ops) > 0 /\ m.ops[Len(m.ops)] = Ret THEN m
    ELSE [m EXCEPT !.ops = Append(m.ops, Ret)]

\* Method::calls: the call sites of the ops, in order, repeats kept
RECURSIVE calls_of(_)
calls_of(ops) ==
    IF ops = <<>> THEN <<>>
    ELSE call(Head(ops)) \o calls_of(Tail(ops))

calls(m) == calls_of(m.ops)

(***************************************************************************)
(* Method::allocate_temporaries.  The walk keeps the local table, the ops   *)
(* rewritten so far and the tmp_stack; a failed expect() or an index out of  *)
(* range ends it with panicked = TRUE.  Local indices are 0-based as in the  *)
(* source, tmp_stack positions are 1-based here.                           *)
(***************************************************************************)
\* a slip in the index computation: one past the slot the push creates
NewTmpIndex_OffByOne(locals) == Len(locals) + 1

\* let index = self.locals.len(): the 0-based index of the local about to be pushed
NewTmpIndex(locals) == Len(locals)

\* a slip that counts the entry from the bottom of the tmp_stack
UnderSlot_FromBottom(stack, under) == stack[1 + under]

\* tmp_stack[(tmp_stack.len() - 1) - under], for an index that is in range
UnderSlot(stack, under) == stack[Len(stack) - under]

\* a slip that puts the new local in front of the table
PushLocal_Front(locals, tpe) == << <<None, tpe>> >> \o locals

\* self.locals.push((None, tpe))
PushLocal(locals, tpe) == Append(locals, <<None, tpe>>)

\* a slip that removes the slot when a Nop is written
Overwrite_Compact(ops, i, new) ==
    IF new = Nop THEN SubSeq(ops, 1, i - 1) \o SubSeq(ops, i + 1, Len(ops))
    ELSE [ops EXCEPT ![i] = new]

\* *op = new, through the mutable reference the loop holds
Overwrite(ops, i, new) == [ops EXCEPT ![i] = new]

\* a failed expect() that lets the walk go on
AllocPanic_GoOn(locals, ops, stack) ==
    [locals |-> locals, ops |-> ops, tmp_stack |-> stack, panicked |-> FALSE]

\* a failed expect() or an index out of range: the walk ends where it is
AllocPanic(locals, ops, stack) ==
    [locals |-> locals, ops |-> ops, tmp_stack |-> stack, panicked |-> TRUE]

\* the effect of one loop iteration on <<locals, ops, tmp_stack>>
AllocOne(locals, ops, stack, i) ==
    LET o == ops[i]
        t == o[1]
        top == stack[Len(stack)]
        put(new) == [locals |-> locals, ops |-> Overwrite(ops, i, new),
                     tmp_stack |-> stack, panicked |-> FALSE]
    IN
    CASE t = "NewTMPLocal" ->
            [locals |-> PushLocal(locals, o[2]),
             ops |-> Overwrite(ops, i, Nop),
             tmp_stack |-> Append(stack, NewTmpIndex(locals)),
             panicked |-> FALSE]
      [] t = "FreeTMPLocal" ->
            IF stack = <<>> THEN AllocPanic(locals, ops, stack)
            ELSE [locals |-> locals, ops |-> Overwrite(ops, i, Nop),
                  tmp_stack |-> SubSeq(stack, 1, Len(stack) - 1), panicked |-> FALSE]
      [] t = "LoadTMPLocal" ->
            IF stack = <<>> THEN AllocPanic(locals, ops, stack) ELSE put(LDLoc(top))
      [] t = "LoadUnderTMPLocal" ->
            \* tmp_stack[(len - 1) - under]: the subtraction overflows or the index is
            \* out of bounds unless under <= len - 1; both builds panic
            IF Len(stack) - 1 - o[2] < 0 THEN AllocPanic(locals, ops, stack)
            ELSE put(LDLoc(UnderSlot(stack, o[2])))
      [] t = "LoadAdressUnderTMPLocal" ->
            IF Len(stack) - 1 - o[2] < 0 THEN AllocPanic(locals, ops, stack)
            ELSE put(LDLocA(UnderSlot(stack, o[2])))
      [] t = "LoadAddresOfTMPLocal" ->
            IF stack = <<>> THEN AllocPanic(locals, ops, stack) ELSE put(LDLocA(top))
      [] t = "SetTMPLocal" ->
            IF stack = <<>> THEN AllocPanic(locals, ops, stack) ELSE put(STLoc(top))
      [] OTHER ->
            [locals |-> locals, ops |-> ops, tmp_stack |-> stack, panicked |-> FALSE]

RECURSIVE AllocWalk(_, _, _, _)
AllocWalk(locals, ops, stack, i) ==
    IF i > Len(ops)
    THEN [locals |-> locals, ops |-> ops, tmp_stack |-> stack, panicked |-> FALSE]
    ELSE LET r == AllocOne(locals, ops, stack, i) IN
         IF r.panicked THEN r
         ELSE AllocWalk(r.locals, r.ops, r.tmp_stack, i + 1)

allocate_temporaries(m) == AllocWalk(m.locals, m.ops, <<>>, 1)

(***************************************************************************)
(* Assembly and its link operation.  An Assembly holds methods (a Vec),     *)
(* its name, types (a HashMap from type name to definition) and size_t.     *)
(***************************************************************************)
\* CLRType::Struct { fields }
Struct(fields) == <<"Struct", fields>>

\* Assembly::empty(): no methods, no types, the default pointer width
Assembly_empty == [methods |-> <<>>, name |-> "", types |-> <<>>, size_t |-> 8]

\* a merge that takes the name of the assembly joined in
link_NameOfOther(self, other) ==
    [self EXCEPT
        !.methods = self.methods \o other.methods,
        !.name = other.name,
        !.types = [n \in DOMAIN self.types \cup DOMAIN other.types |->
                      IF n \in DOMAIN other.types THEN other.types[n] ELSE self.types[n]]]

\* Assembly::link: Vec::extend_from_slice appends, HashMap::extend inserts every
\* entry of other and so replaces the entry of a name self already holds
link(self, other) ==
    [self EXCEPT
        !.methods = self.methods \o other.methods,
        !.types = [n \in DOMAIN self.types \cup DOMAIN other.types |->
                      IF n \in DOMAIN other.types THEN other.types[n] ELSE self.types[n]]]

\* final_assembly.join(assembly): the by-value form of the link operation
join(a, b) == link(a, b)

RECURSIVE JoinAll(_, _)
JoinAll(acc, units) ==
    IF units = <<>> THEN acc ELSE JoinAll(join(acc, Head(units)), Tail(units))

\* load_ar: joins every .bc entry of the archive into a fresh empty assembly
load_ar(entries) == JoinAll(Assembly_empty, entries)

\* Assembly::call_sites: the call sites of every method, repeats kept
RECURSIVE call_sites_of(_)
call_sites_of(methods) ==
    IF methods = <<>> THEN <<>>
    ELSE calls(Head(methods)) \o call_sites_of(Tail(methods))

call_sites(asm) == call_sites_of(asm.methods)

\* Assembly::contains_fn_named
contains_fn_named(asm, name) ==
    \E i \in 1..Len(asm.methods) : asm.methods[i].name = name

\* Assembly::add_method
add_method(asm, m) == [asm EXCEPT !.methods = Append(@, m)]

(***************************************************************************)
(* The linker: throw_msg, patch_missing_method, autopatch and main.        *)
(***************************************************************************)
ExceptionClass ==
    [DotnetTypeRef_new(Some("System.Runtime"), "System.Exception")
        EXCEPT !.is_valuetype = FALSE]

\* crate::utilis::string_class()
string_class ==
    [DotnetTypeRef_new(Some("System.Runtime"), "System.String")
        EXCEPT !.is_valuetype = FALSE]

\* CILOp::throw_msg
throw_msg(msg) ==
    LET class == ExceptionClass
        signature == FnSig_new(<<DotnetType(class), DotnetType(string_class)>>, Void)
    IN <<LdStr(msg), NewObj(CallSite_new(Some(class), ".ctor", signature, FALSE)), Throw>>

\* a stub that carries a decorated name instead of the site's name
patch_missing_method_Renamed(call_site) ==
    set_ops(Method_new("Private", TRUE, call_site.signature,
                       "missing_" \o call_site.name, <<>>),
            throw_msg("Tried to invoke missing method " \o call_site.name))

\* a stub that is public
patch_missing_method_Public(call_site) ==
    set_ops(Method_new("Public", TRUE, call_site.signature, call_site.name, <<>>),
            throw_msg("Tried to invoke missing method " \o call_site.name))

\* patch_missing_method
patch_missing_method(call_site) ==
    set_ops(Method_new("Private", TRUE, call_site.signature, call_site.name, <<>>),
            throw_msg("Tried to invoke missing method " \o call_site.name))

Range(f) == {f[i] : i \in DOMAIN f}

\* the keys of autopatch's `patched` map: the distinct call sites that pass both filters
MissingSites(asm) ==
    {site \in Range(call_sites(asm)) :
        /\ site.is_static /\ site.class = None
        /\ ~contains_fn_named(asm, site.name)}

\* the orders in which HashMap::values may yield the entries of a map with keys S
Orders(S) ==
    {o \in [1..Cardinality(S) -> S] : \A i, j \in DOMAIN o : i # j => o[i] # o[j]}

RECURSIVE AddStubs(_, _)
AddStubs(asm, order) ==
    IF order = <<>> THEN asm
    ELSE AddStubs(add_method(asm, patch_missing_method(Head(order))), Tail(order))

\* autopatch, with `order` the iteration order of patched.values()
autopatch(asm, order) == AddStubs(asm, order)

\* rustc_codegen_clr::ABORT_ON_ERROR
ABORT_ON_ERROR == FALSE

(* The parts of the state a specification does not use stay at these values. *)
IdleMethod == Method_new("Public", TRUE, FnSig_new(<<>>, Void), "", <<>>)

MethodIdle ==
    /\ method = IdleMethod /\ input = IdleMethod /\ tmp_stack = <<>> /\ stage = "idle"
LinkIdle ==
    /\ final_assembly = Assembly_empty /\ to_link = <<>> /\ ar_to_link = <<>>
    /\ linked = <<>> /\ joined = Assembly_empty /\ phase = "idle"
    /\ path = None /\ is_lib = None /\ statics = <<>>
OpIdle == op = Nop /\ trail = <<>>
DefIdle == def = None /\ args = None /\ ret = None

(* The units the linker reads. *)
BarSite == CallSite_new(None, "bar", FnSig_new(<<>>, Void), TRUE)
BarI32Site == CallSite_new(None, "bar", FnSig_new(<<I32>>, Void), TRUE)
ZedSite == CallSite_new(None, "zed", FnSig_new(<<>>, I32), TRUE)
QuxSite == CallSite_new(None, "qux", FnSig_new(<<Ptr(U8)>>, Void), FALSE)
\* the site of CILOp::new_line()
WriteLineSite ==
    CallSite_new(Some([DotnetTypeRef_new(Some("System.Console"), "System.Console")
                          EXCEPT !.is_valuetype = FALSE]),
                 "WriteLine", FnSig_new(<<>>, Void), TRUE)

PublicStatic(name, sig, ops) == set_ops(Method_new("Public", TRUE, sig, name, <<>>), ops)

\* foo() calls the undefined bar() twice and the undefined zed()
FooMethod ==
    PublicStatic("foo", FnSig_new(<<>>, Void),
                 <<Call(BarSite), Call(BarSite), Call(ZedSite), <<"Pop">>, Ret>>)
\* foo(i32), same name as FooMethod, calls bar(i32)
FooI32Method ==
    PublicStatic("foo", FnSig_new(<<I32>>, Void), <<LDArg(0), Call(BarI32Site), Ret>>)
\* bar() is defined here
BarMethod == PublicStatic("bar", FnSig_new(<<>>, Void), <<Ret>>)
\* baz() calls an instance method and a method of a runtime class
BazMethod ==
    PublicStatic("baz", FnSig_new(<<>>, Void),
                 <<<<"LdNull">>, CallVirt(QuxSite), Call(WriteLineSite), Ret>>)

FooDefA == Struct(<< <<"x", I32>> >>)
FooDefB == Struct(<< <<"x", I64>> >>)
PairDef == Struct(<< <<"a", U8>>, <<"b", U8>> >>)

Unit(name, methods, types) ==
    [methods |-> methods, name |-> name, types |-> types, size_t |-> 8]

Units ==
    { Unit("a", <<FooMethod>>, [n \in {"Foo"} |-> FooDefA]),
      Unit("b", <<FooI32Method>>, [n \in {"Foo"} |-> FooDefB]),
      Unit("b", <<BarMethod>>,
           [n \in {"Foo", "Pair"} |-> IF n = "Foo" THEN FooDefA ELSE PairDef]),
      Unit("c", <<BazMethod>>, <<>>) }

InitLink ==
    /\ final_assembly = Assembly_empty
    /\ \E us \in SeqsUpTo(Units, MaxUnits) : \E k \in 0..Len(us) :
          /\ to_link = SubSeq(us, 1, k)
          /\ ar_to_link \in (IF k < Len(us) THEN {<<SubSeq(us, k + 1, Len(us))>>}
                             ELSE {<<>>, << <<>> >>})
    /\ linked = <<>>
    /\ joined = Assembly_empty
    /\ phase = "join"
    /\ path = None /\ is_lib = None /\ statics = <<>>
    /\ MethodIdle /\ OpIdle /\ DefIdle

\* main, first loop: one .bc file is decoded and joined
JoinBc ==
    /\ phase = "join" /\ to_link # <<>>
    /\ final_assembly' = join(final_assembly, Head(to_link))
    /\ to_link' = Tail(to_link)
    /\ linked' = Append(linked, Head(to_link))
    /\ UNCHANGED <<ar_to_link, joined, phase, path, is_lib, statics, mvars, ovars, dvars>>

\* main, second loop: one archive is loaded by load_ar and joined
JoinAr ==
    /\ phase = "join" /\ to_link = <<>> /\ ar_to_link # <<>>
    /\ final_assembly' = join(final_assembly, load_ar(Head(ar_to_link)))
    /\ ar_to_link' = Tail(ar_to_link)
    /\ linked' = linked \o Head(ar_to_link)
    /\ UNCHANGED <<to_link, joined, phase, path, is_lib, statics, mvars, ovars, dvars>>

\* main: autopatch(&mut final_assembly) once every input is joined
Autopatch ==
    /\ phase = "join" /\ to_link = <<>> /\ ar_to_link = <<>>
    /\ ~ABORT_ON_ERROR
    /\ \E order \in Orders(MissingSites(final_assembly)) :
          final_assembly' = autopatch(final_assembly, order)
    /\ joined' = final_assembly
    /\ phase' = "patched"
    /\ UNCHANGED <<to_link, ar_to_link, linked, path, is_lib, statics, mvars, ovars, dvars>>

\* str::contains
contains(s, pat) ==
    \E i \in 1..(Len(s) - Len(pat) + 1) : SubSeq(s, i, i + Len(pat) - 1) = pat

\* main: output.contains(".dll") || output.contains(".so") || output.contains(".o")
is_lib_of(out) ==
    \/ contains(out, <<".", "d", "l", "l">>)
    \/ contains(out, <<".", "s", "o">>)
    \/ contains(out, <<".", "o">>)

\* Assembly::add_static: the static is added unless one of that name is present
add_static(table, tpe, name) ==
    IF \E i \in 1..Len(table) : table[i][2] = name THEN table
    ELSE Append(table, <<tpe, name>>)

\* add_mandatory_statics
add_mandatory_statics(table) ==
    add_static(
        add_static(
            add_static(table, U8, "__rust_alloc_error_handler_should_panic"),
            U8, "__rust_no_alloc_shim_is_unstable"),
        Ptr(Ptr(U8)), "environ")

\* the output names given after -o
Outputs ==
    {<<"a", "p", "p", ".", "e", "x", "e">>,
     <<"l", "i", "b", ".", "d", "l", "l">>,
     <<"l", "i", "b", "f", "o", "o", ".", "s", "o">>,
     <<"m", "a", "i", "n", ".", "o">>,
     <<"m", "a", "i", "n">>,
     <<"a", ".", "o", "u", "t">>,
     <<"m", "y", ".", "o", "u", "t", "p", "u", "t", ".", "e", "x", "e">>,
     <<"a", "p", "p", ".", "d", "l", "l", ".", "c", "o", "n", "f", "i", "g">>,
     <<"b", "u", "i", "l", "d", ".", "o", "/", "a", "p", "p">>,
     <<"x", ".", "o", "b", "j">>}

\* main, after autopatch: is_lib is computed, the mandatory statics are added and the
\* assembly is handed to the exporter
Export ==
    /\ phase = "patched"
    /\ \E out \in Outputs :
          /\ path' = Some(out)
          /\ is_lib' = Some(is_lib_of(out))
    /\ statics' = add_mandatory_statics(statics)
    /\ phase' = "exported"
    /\ UNCHANGED <<final_assembly, to_link, ar_to_link, linked, joined, mvars, ovars,
                   dvars>>

NextLink == JoinBc \/ JoinAr \/ Autopatch \/ Export

SpecLink == InitLink /\ [][NextLink]_vars

(***************************************************************************)
(* Claims about join and autopatch.                                        *)
(***************************************************************************)
Live == phase \in {"join", "patched"}

\* C4: in every assembly reached by joins followed by autopatch no two methods share
\* a name and no two type definitions share a name.  (types is a map keyed by the
\* type name, so the second half cannot fail; the join has no failing outcome.)
C4_NamesUnique ==
    Live =>
        \A i, j \in 1..Len(final_assembly.methods) :
            i # j => final_assembly.methods[i].name # final_assembly.methods[j].name

\* ms without every method whose (name, signature) equals that of an earlier one
RECURSIVE DropLaterDuplicates(_, _)
DropLaterDuplicates(ms, kept) ==
    IF ms = <<>> THEN kept
    ELSE LET m == Head(ms)
             seen == \E k \in 1..Len(kept) : kept[k].name = m.name /\ kept[k].sig = m.sig
         IN DropLaterDuplicates(Tail(ms), IF seen THEN kept ELSE Append(kept, m))

RECURSIVE MethodsOf(_)
MethodsOf(units) ==
    IF units = <<>> THEN <<>> ELSE Head(units).methods \o MethodsOf(Tail(units))

\* C5: join(a, b) holds a's methods followed by b's, every method whose (name,
\* signature) equals that of an earlier method dropped; folded over the inputs, the
\* joined assembly holds the inputs' methods in order with later duplicates dropped.
C5_JoinDropsDuplicates ==
    phase = "join" =>
        final_assembly.methods = DropLaterDuplicates(MethodsOf(linked), <<>>)

\* C6: a join of two assemblies that define a type of the same name differently fails
\* and never keeps one of the two: no run goes on after joining two such inputs.
\* When the definitions of a name are identical the result holds that one definition.
C6_ConflictFails ==
    Live =>
        /\ \A i, j \in 1..Len(linked) :
              \A n \in DOMAIN linked[i].types \cap DOMAIN linked[j].types :
                  linked[i].types[n] = linked[j].types[n]
        /\ \A i \in 1..Len(linked) : \A n \in DOMAIN linked[i].types :
              n \in DOMAIN final_assembly.types
                  /\ final_assembly.types[n] = linked[i].types[n]

\* the assemblies the run has in hand
Seen == Range(linked) \cup {final_assembly, joined}

SameContent(x, y) == x.methods = y.methods /\ x.types = y.types /\ x.name = y.name

\* the methods of x and y are the same up to their order (as bags)
SameMethodsUpToOrder(x, y) ==
    /\ Len(x) = Len(y)
    /\ \A m \in Range(x) \cup Range(y) :
          Cardinality({i \in 1..Len(x) : x[i] = m})
              = Cardinality({i \in 1..Len(y) : y[i] = m})

AssocUpToOrder(a, b, c) ==
    LET l == join(join(a, b), c)
        r == join(a, join(b, c))
    IN SameMethodsUpToOrder(l.methods, r.methods) /\ l.types = r.types /\ l.name = r.name

\* C7: joining a with the empty assembly, in either order, gives an assembly equal to
\* a in methods, types and name, and join is associative up to method ordering.
C7_EmptyIsIdentity ==
    /\ \A a \in Seen :
          /\ SameContent(join(a, Assembly_empty), a)
          /\ SameContent(join(Assembly_empty, a), a)
    /\ \A a, b, c \in Range(linked) : AssocUpToOrder(a, b, c)

\* C7 (amended): join(a, empty) equals a; join(empty, a) has a's methods and types
\* and the name of the empty assembly (the name is always that of the first
\* argument); join is associative, so folding archives through load_ar gives the
\* same assembly as folding their entries one by one.
C7_RightIdentityAndAssoc ==
    /\ \A a \in Seen :
          /\ join(a, Assembly_empty) = a
          /\ LET r == join(Assembly_empty, a) IN
                r.methods = a.methods /\ r.types = a.types /\ r.name = Assembly_empty.name
    /\ \A a, b, c \in Range(linked) :
          /\ AssocUpToOrder(a, b, c)
          /\ join(join(a, b), c).name = a.name
    /\ phase = "join" => final_assembly = JoinAll(Assembly_empty, linked)

\* an archive of two units was folded by load_ar onto a directly joined unit whose
\* name differs from the name of the empty assembly
C7_Witness ==
    /\ phase = "join" /\ Len(linked) = 3 /\ to_link = <<>> /\ ar_to_link = <<>>
    /\ linked[1].name # Assembly_empty.name
    /\ linked[2].methods # <<>> /\ linked[3].methods # <<>>
    /\ \E n \in DOMAIN linked[2].types \cap DOMAIN linked[3].types :
          linked[2].types[n] # linked[3].types[n]

ThrowBody(name) ==
    << <<"LdStr", "Tried to invoke missing method " \o name>>,
       <<"NewObj",
         [class |-> << [assembly |-> <<"System.Runtime">>,
                        name_path |-> "System.Exception",
                        is_valuetype |-> FALSE] >>,
          name |-> ".ctor",
          signature |->
              [inputs |-> << <<"DotnetType", [assembly |-> <<"System.Runtime">>,
                                              name_path |-> "System.Exception",
                                              is_valuetype |-> FALSE]>>,
                             <<"DotnetType", [assembly |-> <<"System.Runtime">>,
                                              name_path |-> "System.String",
                                              is_valuetype |-> FALSE]>> >>,
               output |-> <<"Void">>],
          is_static |-> FALSE]>>,
       <<"Throw">> >>

\* C8: after autopatch every call site in the ops of any method, whatever its static
\* flag or class and also inside the stubs, names a method of the assembly.
C8_EverySiteResolved ==
    phase = "patched" =>
        \A site \in Range(call_sites(final_assembly)) :
            \E i \in 1..Len(final_assembly.methods) :
                final_assembly.methods[i].name = site.name

\* C8 (amended): after autopatch every static call site without a declaring class in
\* the ops of any method names a method of the assembly: one that was there before
\* autopatch, or a stub that throws `Tried to invoke missing method <name>`.
C8_StaticSitesResolved ==
    phase = "patched" =>
        \A site \in Range(call_sites(final_assembly)) :
            (site.is_static /\ site.class = <<>>) =>
                \E i \in 1..Len(final_assembly.methods) :
                    /\ final_assembly.methods[i].name = site.name
                    /\ \/ i <= Len(joined.methods)
                       \/ final_assembly.methods[i].ops = ThrowBody(site.name)

C8_Witness ==
    /\ phase = "patched"
    /\ \E site \in Range(call_sites(final_assembly)) :
          /\ site.is_static /\ site.class = <<>>
          /\ \A i \in 1..Len(joined.methods) : joined.methods[i].name # site.name
          /\ \E i \in 1..Len(final_assembly.methods) :
                final_assembly.methods[i].name = site.name
    /\ \E site \in Range(call_sites(final_assembly)) :
          site.is_static /\ site.class = <<>>
              /\ \E i \in 1..Len(joined.methods) : joined.methods[i].name = site.name

\* the methods autopatch added
Stubs ==
    SubSeq(final_assembly.methods, Len(joined.methods) + 1, Len(final_assembly.methods))

\* the distinct sites that are static, without class and defined by no joined method
Needed ==
    {site \in Range(call_sites(joined)) :
        /\ site.is_static /\ site.class = <<>>
        /\ \A i \in 1..Len(joined.methods) : joined.methods[i].name # site.name}

IsStubFor(m, site) ==
    /\ m.access = "Private" /\ m.is_static /\ m.locals = <<>> /\ m.attributes = <<>>
    /\ m.name = site.name /\ m.sig = site.signature
    /\ m.ops = ThrowBody(site.name)

\* C9: autopatch adds exactly one stub for each distinct call site that is static,
\* has no declaring class and whose name no joined method defines, and nothing
\* else; the stub is private, static, without locals, has the site's name and
\* signature and the three-op throwing body; the methods present before are
\* unchanged.
C9_OneStubPerMissingSite ==
    phase = "patched" =>
        /\ Len(final_assembly.methods) = Len(joined.methods) + Cardinality(Needed)
        /\ SubSeq(final_assembly.methods, 1, Len(joined.methods)) = joined.methods
        /\ final_assembly.types = joined.types /\ final_assembly.name = joined.name
        /\ \A site \in Needed :
              Cardinality({k \in 1..Len(Stubs) : IsStubFor(Stubs[k], site)}) = 1
        /\ \A k \in 1..Len(Stubs) : \E site \in Needed : IsStubFor(Stubs[k], site)

\* two stubs were added, one of them for a site that occurs twice, next to sites that
\* get no stub
C9_Witness ==
    /\ phase = "patched" /\ Len(Stubs) >= 2
    /\ \E site \in Needed :
          Cardinality({i \in DOMAIN call_sites(joined) : call_sites(joined)[i] = site}) >= 2
    /\ \E site \in Range(call_sites(joined)) : site \notin Needed

(***************************************************************************)
(* The Method life cycle: constructed by Method::new, given its ops,       *)
(* optionally closed by ensure_valid, then rewritten by                    *)
(* allocate_temporaries.                                                   *)
(***************************************************************************)
TmpTypes == {U32, I32}

OpAlphabet ==
    {NewTMPLocal(t) : t \in TmpTypes}
    \cup {FreeTMPLocal, LoadTMPLocal, LoadAddresOfTMPLocal, SetTMPLocal}
    \cup {LoadUnderTMPLocal(0), LoadUnderTMPLocal(1), LoadAdressUnderTMPLocal(0),
          LoadAdressUnderTMPLocal(1)}
    \cup {LdcI32(7), Ret, Label(0), GoTo(0)}

\* the ops of test_tmp_locals (scenario S1)
S1Ops == <<NewTMPLocal(U32), LdcI32(8), SetTMPLocal, LdcI32(7), LoadTMPLocal,
           FreeTMPLocal, Ret>>

\* two temporaries, one inside the other, used through the Under forms
NestedOps == <<NewTMPLocal(U32), NewTMPLocal(I32), LoadUnderTMPLocal(1),
               LoadAdressUnderTMPLocal(0), FreeTMPLocal, LoadTMPLocal, FreeTMPLocal>>

\* two temporaries, the second created after the first was freed
SerialOps == <<NewTMPLocal(U32), SetTMPLocal, FreeTMPLocal, NewTMPLocal(I32),
               LoadAddresOfTMPLocal, FreeTMPLocal>>

OpSeqs == SeqsUpTo(OpAlphabet, MaxOps) \cup {S1Ops, NestedOps, SerialOps}

InitLocals == {<<>>, << <<Some("x"), I64>> >>}

InitMethod ==
    /\ \E locals \in InitLocals :
          method = Method_new("Public", TRUE, FnSig_new(<<>>, U32), "meth", locals)
    /\ input = method
    /\ tmp_stack = <<>>
    /\ stage = "new"
    /\ LinkIdle /\ OpIdle /\ DefIdle

SetOps ==
    /\ stage = "new"
    /\ \E ops \in OpSeqs : method' = set_ops(method, ops)
    /\ input' = method'
    /\ stage' = "built"
    /\ UNCHANGED <<tmp_stack, lvars, ovars, dvars>>

\* method.ensure_valid(), any number of times; input stays the method as set_ops left it
EnsureValid ==
    /\ stage \in {"built", "valid"}
    /\ method' = ensure_valid(method)
    /\ stage' = "valid"
    /\ UNCHANGED <<input, tmp_stack, lvars, ovars, dvars>>

AllocateTemporaries ==
    /\ stage \in {"built", "valid"}
    /\ LET r == allocate_temporaries(method) IN
          /\ method' = [method EXCEPT !.locals = r.locals, !.ops = r.ops]
          /\ tmp_stack' = r.tmp_stack
          /\ stage' = IF r.panicked THEN "panicked" ELSE "allocated"
    /\ input' = method
    /\ UNCHANGED <<lvars, ovars, dvars>>

NextMethod == SetOps \/ EnsureValid \/ AllocateTemporaries

SpecMethod == InitMethod /\ [][NextMethod]_vars

(***************************************************************************)
(* Claims about allocate_temporaries.                                      *)
(***************************************************************************)
RECURSIVE CountTag(_, _)
CountTag(ops, tag) ==
    IF ops = <<>> THEN 0
    ELSE (IF Head(ops)[1] = tag THEN 1 ELSE 0) + CountTag(Tail(ops), tag)

TagAt(ops, tag) == {i \in 1..Len(ops) : ops[i][1] = tag}

\* C1: allocate_temporaries completes without error only if the tmp-stack is empty
\* when the walk finishes, so every accepted sequence has as many NewTMPLocal as
\* FreeTMPLocal ops and a sequence leaving a NewTMPLocal unfreed is rejected.
C1_AcceptedOnlyIfBalanced ==
    stage = "allocated" =>
        /\ tmp_stack = <<>>
        /\ CountTag(input.ops, "NewTMPLocal") = CountTag(input.ops, "FreeTMPLocal")

\* the ops hold exactly one NewTMPLocal ... FreeTMPLocal pair and every
\* SetTMPLocal / LoadTMPLocal lies strictly inside it
OnePairEnclosing(ops) ==
    /\ Cardinality(TagAt(ops, "NewTMPLocal")) = 1
    /\ Cardinality(TagAt(ops, "FreeTMPLocal")) = 1
    /\ \A n \in TagAt(ops, "NewTMPLocal"), f \in TagAt(ops, "FreeTMPLocal") :
          /\ n < f
          /\ \A i \in TagAt(ops, "SetTMPLocal") \cup TagAt(ops, "LoadTMPLocal") :
                n < i /\ i < f

\* the only synthetic ops are NewTMPLocal, FreeTMPLocal, SetTMPLocal, LoadTMPLocal
OnlyPlainTmpOps(ops) ==
    \A i \in 1..Len(ops) :
        ops[i][1] \notin {"LoadUnderTMPLocal", "LoadAdressUnderTMPLocal",
                          "LoadAddresOfTMPLocal"}

\* s with any number of the Nops that directly precede its last op left out
RECURSIVE NopRun(_, _)
NopRun(s, i) == IF i >= 1 /\ s[i] = Nop THEN 1 + NopRun(s, i - 1) ELSE 0

ElideFinalNops(s) ==
    LET k == NopRun(s, Len(s) - 1)
        prefix == SubSeq(s, 1, Len(s) - 1 - k)
    IN {prefix \o [j \in 1..n |-> Nop] \o <<s[Len(s)]>> : n \in 0..k}

S1Expected == <<Nop, LdcI32(8), STLoc(0), LdcI32(7), LDLoc(0), Nop, Nop, Ret>>

\* C2: for a method without locals whose ops hold one NewTMPLocal(T) ... FreeTMPLocal
\* pair enclosing SetTMPLocal / LoadTMPLocal ops the pass succeeds, the local table
\* becomes [(None, T)] and every SetTMPLocal / LoadTMPLocal becomes STLoc(0) /
\* LDLoc(0); on the ops of scenario S1 the result is the listed sequence up to
\* elision of its final Nops.
C2_ScenarioS1 ==
    (stage \in {"allocated", "panicked"} /\ input.locals = <<>>
        /\ OnePairEnclosing(input.ops)) =>
        /\ OnlyPlainTmpOps(input.ops) => stage = "allocated"
        /\ stage = "allocated" =>
            /\ \A n \in TagAt(input.ops, "NewTMPLocal") :
                  method.locals = << <<None, input.ops[n][2]>> >>
            /\ \A i \in TagAt(input.ops, "SetTMPLocal") : method.ops[i] = STLoc(0)
            /\ \A i \in TagAt(input.ops, "LoadTMPLocal") : method.ops[i] = LDLoc(0)
            /\ input.ops = S1Ops =>
                  /\ method.ops \in ElideFinalNops(S1Expected)
                  /\ method.locals = << <<None, U32>> >>

C2_Witness ==
    /\ stage = "allocated" /\ input.locals = <<>> /\ input.ops = S1Ops
    /\ method.ops = <<Nop, LdcI32(8), STLoc(0), LdcI32(7), LDLoc(0), Nop, Ret>>

\* the positions of the NewTMPLocal ops that are created and not yet freed once the
\* first p ops are walked, oldest first
RECURSIVE LiveTmps(_, _)
LiveTmps(ops, p) ==
    IF p = 0 THEN <<>>
    ELSE LET s == LiveTmps(ops, p - 1) IN
         CASE ops[p][1] = "NewTMPLocal" -> Append(s, p)
           [] ops[p][1] = "FreeTMPLocal" ->
                 IF s = <<>> THEN s ELSE SubSeq(s, 1, Len(s) - 1)
           [] OTHER -> s

\* the index of the local that the NewTMPLocal at position q of the input creates
LocalOf(q) ==
    Len(input.locals) + Cardinality({n \in TagAt(input.ops, "NewTMPLocal") : n < q})

\* position i of the input was rewritten by the pass, which then went on or not
Rewritten(i) ==
    \/ stage = "allocated"
    \/ stage = "panicked" /\ method.ops[i] # input.ops[i]

\* the creator of the temporary n entries below the top at position i
CreatorAt(i, n) ==
    LET live == LiveTmps(input.ops, i - 1) IN live[Len(live) - n]

\* C19: LoadTMPLocal / LoadAddresOfTMPLocal / SetTMPLocal become LDLoc(i) / LDLocA(i) /
\* STLoc(i), i the local created by the most recent NewTMPLocal not yet freed at that
\* point of the walk; LoadUnderTMPLocal(n) / LoadAdressUnderTMPLocal(n) become
\* LDLoc(j) / LDLocA(j), j the tmp-stack entry n below the top (n = 0: the top).
C19_TmpOpsReplaced ==
    \A i \in 1..Len(input.ops) :
        LET o == input.ops[i] IN
        (stage \in {"allocated", "panicked"} /\ Rewritten(i)) =>
            /\ o = LoadTMPLocal => method.ops[i] = <<"LDLoc", LocalOf(CreatorAt(i, 0))>>
            /\ o = LoadAddresOfTMPLocal =>
                  method.ops[i] = <<"LDLocA", LocalOf(CreatorAt(i, 0))>>
            /\ o = SetTMPLocal => method.ops[i] = <<"STLoc", LocalOf(CreatorAt(i, 0))>>
            /\ o[1] = "LoadUnderTMPLocal" =>
                  method.ops[i] = <<"LDLoc", LocalOf(CreatorAt(i, o[2]))>>
            /\ o[1] = "LoadAdressUnderTMPLocal" =>
                  method.ops[i] = <<"LDLocA", LocalOf(CreatorAt(i, o[2]))>>

\* two nested temporaries after one named local: the Under forms and the plain form
\* pick the outer (1), the inner (2) and, once the inner is freed, the outer again
C19_Witness ==
    /\ stage = "allocated" /\ input.ops = NestedOps /\ Len(input.locals) = 1
    /\ method.ops = <<Nop, Nop, LDLoc(1), LDLocA(2), Nop, LDLoc(1), Nop>>

\* the types of the NewTMPLocal ops of the input, in order of occurrence
RECURSIVE NewTypes(_)
NewTypes(ops) ==
    IF ops = <<>> THEN <<>>
    ELSE (IF Head(ops)[1] = "NewTMPLocal" THEN << <<None, Head(ops)[2]>> >> ELSE <<>>)
         \o NewTypes(Tail(ops))

\* the index an op rewritten from a temporary access names
IndexUsedAt(i) == method.ops[i][2]

TmpAccess(i) ==
    input.ops[i] \in {LoadTMPLocal, LoadAddresOfTMPLocal, SetTMPLocal}

\* C20: each NewTMPLocal(T) met by the pass appends exactly one anonymous local of
\* type T and becomes a Nop; afterwards the local table is the original table
\* followed by the types of the NewTMPLocal ops in order of occurrence, pre-existing
\* locals keep index, name and type, and every temporary has a fresh index that no
\* later temporary gets, even after it was freed.
C20_LocalsAppended ==
    /\ stage = "allocated" =>
          /\ method.locals = input.locals \o NewTypes(input.ops)
          /\ \A q \in TagAt(input.ops, "NewTMPLocal") : method.ops[q] = Nop
          /\ \A i, j \in 1..Len(input.ops) :
                (TmpAccess(i) /\ TmpAccess(j)) =>
                    /\ IndexUsedAt(i) >= Len(input.locals)
                    /\ method.locals[IndexUsedAt(i) + 1] =
                           <<None, input.ops[CreatorAt(i, 0)][2]>>
                    /\ CreatorAt(i, 0) # CreatorAt(j, 0) => IndexUsedAt(i) # IndexUsedAt(j)
    /\ stage = "panicked" =>
          /\ \E k \in 0..Len(NewTypes(input.ops)) :
                method.locals = input.locals \o SubSeq(NewTypes(input.ops), 1, k)
          /\ \A q \in TagAt(input.ops, "NewTMPLocal") :
                method.ops[q] = Nop \/ method.ops[q] = input.ops[q]

\* a temporary created after the first one was freed got the next index, not the
\* freed one, and the named local stayed at index 0
C20_Witness ==
    /\ stage = "allocated" /\ input.ops = SerialOps
    /\ input.locals = << <<Some("x"), I64>> >>
    /\ method.locals = << <<Some("x"), I64>>, <<None, U32>>, <<None, I32>> >>
    /\ method.ops = <<Nop, STLoc(1), Nop, Nop, LDLocA(2), Nop>>

\* the number of live temporaries when the walk reaches position i
Depth(i) == Len(LiveTmps(input.ops, i - 1))

\* position i of the input asks for a temporary that is not there
Offends(i) ==
    LET o == input.ops[i] IN
    \/ o = FreeTMPLocal /\ Depth(i) = 0
    \/ o \in {LoadTMPLocal, LoadAddresOfTMPLocal, SetTMPLocal} /\ Depth(i) = 0
    \/ o[1] \in {"LoadUnderTMPLocal", "LoadAdressUnderTMPLocal"} /\ o[2] >= Depth(i)

Offenders == {i \in 1..Len(input.ops) : Offends(i)}

FirstOffender == CHOOSE i \in Offenders : \A j \in Offenders : i <= j

\* C21: allocate_temporaries fails when it meets FreeTMPLocal with an empty tmp-stack,
\* LoadTMPLocal, LoadAddresOfTMPLocal or SetTMPLocal with no active temporary, or
\* LoadUnderTMPLocal(n) / LoadAdressUnderTMPLocal(n) with n at least the current
\* tmp-stack depth; in none of these cases does it emit a local index.
C21_MalformedFails ==
    (stage \in {"allocated", "panicked"} /\ Offenders # {}) =>
        /\ stage = "panicked"
        /\ Len(method.ops) = Len(input.ops)
        /\ \A i \in FirstOffender..Len(input.ops) : method.ops[i] = input.ops[i]

\* LoadUnderTMPLocal(1) with one live temporary: the pass failed and left the op
C21_Witness ==
    /\ stage = "panicked"
    /\ input.ops = <<NewTMPLocal(U32), LoadUnderTMPLocal(1)>>
    /\ method.ops = <<Nop, LoadUnderTMPLocal(1)>>

\* every branch of ops targets a label that ops holds
TargetsLabelled(ops) ==
    \A i \in 1..Len(ops) :
        ops[i][1] \in BranchTags => \E j \in 1..Len(ops) : ops[j] = <<"Label", ops[i][2]>>

\* C22: allocate_temporaries fails on any method that holds a branch op whose target id
\* has no Label op with that id in the same opcode sequence; every method it accepts
\* has all branch targets labelled.
C22_UnlabelledBranchFails ==
    stage = "allocated" => TargetsLabelled(input.ops)

SyntheticTags ==
    {"NewTMPLocal", "FreeTMPLocal", "LoadTMPLocal", "LoadUnderTMPLocal",
     "LoadAdressUnderTMPLocal", "LoadAddresOfTMPLocal", "SetTMPLocal"}

\* ops without its Nops
RECURSIVE Compacted(_)
Compacted(ops) ==
    IF ops = <<>> THEN <<>>
    ELSE (IF Head(ops) = Nop THEN <<>> ELSE <<Head(ops)>>) \o Compacted(Tail(ops))

\* C23: allocate_temporaries rewrites in place and removes nothing: the opcode sequence
\* keeps its length, every NewTMPLocal and FreeTMPLocal slot holds a Nop at the same
\* position afterwards, every op that is not a synthetic TMP op is unchanged at its
\* position, and name, signature, access, static flag and attributes are unchanged
\* (so the result differs from the compacted sequence whenever a slot was freed).
C23_InPlace ==
    stage \in {"allocated", "panicked"} =>
        /\ Len(method.ops) = Len(input.ops)
        /\ \A i \in 1..Len(input.ops) :
              /\ (stage = "allocated" /\ input.ops[i][1] \in {"NewTMPLocal", "FreeTMPLocal"})
                    => method.ops[i] = Nop
              /\ input.ops[i][1] \notin SyntheticTags => method.ops[i] = input.ops[i]
        /\ method.name = input.name /\ method.sig = input.sig
        /\ method.access = input.access /\ method.is_static = input.is_static
        /\ method.attributes = input.attributes
        /\ (stage = "allocated" /\ \E i \in 1..Len(input.ops) :
                input.ops[i][1] \in {"NewTMPLocal", "FreeTMPLocal"})
              => method.ops # Compacted(method.ops)
        /\ (stage = "allocated" /\ input.ops = S1Ops /\ input.locals = <<>>)
              => method.ops # <<LdcI32(8), STLoc(0), LdcI32(7), LDLoc(0), Ret>>

\* scenario S1 on a method with one named local: seven ops in, seven ops out, Nops in
\* the slots of NewTMPLocal and FreeTMPLocal
C23_Witness ==
    /\ stage = "allocated" /\ input.ops = S1Ops /\ Len(input.locals) = 1
    /\ Len(method.ops) = 7
    /\ method.ops = <<Nop, LdcI32(8), STLoc(1), LdcI32(7), LDLoc(1), Nop, Ret>>

EndsWithRet(ops) == Len(ops) > 0 /\ ops[Len(ops)] = <<"Ret">>

\* C24: after ensure_valid the last op of the method is Ret: a sequence that already
\* ended with Ret is unchanged, otherwise (the empty sequence included) exactly one
\* Ret is appended after the existing ops, which are kept; ensure_valid applied twice
\* gives what it gives applied once.
C24_EnsureValid ==
    stage = "valid" =>
        /\ EndsWithRet(method.ops)
        /\ EndsWithRet(input.ops) => method = input
        /\ ~EndsWithRet(input.ops) =>
              method = [input EXCEPT !.ops = input.ops \o << <<"Ret">> >>]

\* ensure_valid on the empty sequence gave the single op Ret
C24_Witness ==
    stage = "valid" /\ input.ops = <<>> /\ method.ops = <<Ret>>

(***************************************************************************)
(* A single CILOp value and the calls that rewrite it in place.            *)
(***************************************************************************)
Labels == 0..MaxLabel

OpUniverse ==
    {<<t, id>> : t \in BranchTags, id \in Labels}
    \cup {Label(id) : id \in Labels}
    \cup {LDLoc(id) : id \in Labels}
    \cup {Nop, Ret, <<"Eq">>}

InitOp ==
    /\ op \in OpUniverse
    /\ trail = <<>>
    /\ MethodIdle /\ LinkIdle /\ DefIdle

\* the last call of the trail did not return
OpPanicked == Len(trail) > 0 /\ trail[Len(trail)].fn = "flip_cond: todo!"

\* op.replace_target(from, to)
ReplaceTarget ==
    /\ Len(trail) < MaxCalls /\ ~OpPanicked
    /\ \E x, y \in Labels :
          /\ op' = replace_target(op, x, y)
          /\ trail' = Append(trail, [fn |-> "replace_target", from |-> x, to |-> y,
                                     before |-> op])
    /\ UNCHANGED <<mvars, lvars, dvars>>

\* op = op.flip_cond()
FlipCond ==
    /\ Len(trail) < MaxCalls /\ ~OpPanicked
    /\ LET r == flip_cond(op)
       IN /\ op' = IF r = Todo THEN op ELSE r
          /\ trail' = Append(trail, [fn |-> IF r = Todo THEN "flip_cond: todo!"
                                                        ELSE "flip_cond",
                                     from |-> 0, to |-> 0, before |-> op])
    /\ UNCHANGED <<mvars, lvars, dvars>>

NextOp == ReplaceTarget \/ FlipCond

SpecOp == InitOp /\ [][NextOp]_vars

\* the value of op after the i-th call of the trail
After(i) == IF i = Len(trail) THEN op ELSE trail[i + 1].before

\* calls i and i + 1 are replace_target(x, y) then replace_target(y, x) on a branch
RoundTripAt(i) ==
    /\ i + 1 <= Len(trail)
    /\ trail[i].fn = "replace_target" /\ trail[i + 1].fn = "replace_target"
    /\ trail[i + 1].from = trail[i].to /\ trail[i + 1].to = trail[i].from
    /\ trail[i].before[1] \in BranchTags

\* C10: for every branch op and all label ids x, y, replace_target(op, x, y) followed
\* by replace_target(op, y, x) leaves op equal to the original op.
C10_RoundTrip ==
    \A i \in 1..Len(trail) : RoundTripAt(i) => After(i + 1) = trail[i].before

\* C10 (amended): the round trip restores a branch op whose target is not y (or when
\* x = y); a branch that targets y, with x # y, is untouched by the first call and
\* retargeted to x by the second.
C10_RoundTripUnlessTargetIsTo ==
    \A i \in 1..Len(trail) :
        RoundTripAt(i) =>
            LET o == trail[i].before
                x == trail[i].from
                y == trail[i].to
            IN IF o[2] = y /\ x # y
               THEN After(i) = o /\ After(i + 1) = <<o[1], x>>
               ELSE After(i + 1) = o

\* a round trip that really rewrote the target and restored it, and one on a branch
\* with a third target
C10_Witness ==
    \E i \in 1..Len(trail) :
        /\ RoundTripAt(i)
        /\ trail[i].from # trail[i].to
        /\ trail[i].before[2] = trail[i].from
        /\ After(i) = <<trail[i].before[1], trail[i].to>>
        /\ After(i + 1) = trail[i].before

\* C27: replace_target(op, from, to) changes op only when op is a branch (GoTo, BEq,
\* BNe, BLt, BGe, BLe, BZero, BTrue) whose target equals from, and then only the target
\* becomes to while the variant is kept; a branch with another target, a Label (also
\* Label(from)) and every non-branch op are left unchanged.
C27_ReplaceTargetFrame ==
    \A i \in 1..Len(trail) :
        trail[i].fn = "replace_target" =>
            LET o == trail[i].before
                isBranch == o[1] \in {"GoTo", "BEq", "BNe", "BLt", "BGe", "BLe", "BZero",
                                      "BTrue"}
            IN IF isBranch /\ o[2] = trail[i].from
               THEN After(i) = <<o[1], trail[i].to>>
               ELSE After(i) = o

\* replace_target(Label(1), 1, 2) returned Label(1)
C27_Witness ==
    \E i \in 1..Len(trail) :
        /\ trail[i].fn = "replace_target"
        /\ trail[i].before = Label(1) /\ trail[i].from = 1 /\ trail[i].to = 2
        /\ After(i) = Label(1)

\* the calls of the trail that are flip_cond, returning or not
FlipCalls == {i \in 1..Len(trail) : trail[i].fn \in {"flip_cond", "flip_cond: todo!"}}

C11_WitnessTodo ==
    \E i \in FlipCalls : trail[i].fn = "flip_cond: todo!" /\ trail[i].before[1] = "BLt"

(***************************************************************************)
(* The array type factory.                                                 *)
(***************************************************************************)
\* crate::r#type::mangle: an injective encoding of a Type as an identifier fragment
\* (the code of I32 is the one scenario S2 shows)
RECURSIVE mangle(_)
mangle(t) ==
    CASE t[1] = "Void" -> "v"
      [] t[1] = "U8" -> "h"
      [] t[1] = "I32" -> "i"
      [] t[1] = "U32" -> "j"
      [] t[1] = "I64" -> "l"
      [] t[1] = "USize" -> "m"
      [] t[1] = "Ptr" -> "P" \o mangle(t[2])
      [] t[1] = "DotnetType" -> "N" \o t[2].name_path

\* a name that puts the element before the count
arr_name_ElementFirst(element_count, element) ==
    "Arr" \o mangle(element) \o "_" \o ToString(element_count)

\* arr_name
arr_name(element_count, element) ==
    "Arr" \o ToString(element_count) \o "_" \o mangle(element)

\* FieldDescriptor::boxed(owner, tpe, name)
FieldDescriptor_boxed(owner, tpe, name) == [owner |-> owner, tpe |-> tpe, name |-> name]

\* From<&TypeDef> for DotnetTypeRef / for Type
TypeDef_ref(d) == DotnetTypeRef_new(None, d.name)
TypeDef_type(d) == DotnetType(DotnetTypeRef_new(None, d.name))

\* get_array_type
get_array_type(element_count, element) ==
    LET name == arr_name(element_count, element)
        fields == [field \in 1..element_count |->
                      <<"f_" \o ToString(field - 1), element>>]
        d == [access |-> "Public", name |-> name, inner_types |-> <<>>,
              fields |-> fields, functions |-> <<>>, explicit_offsets |-> None,
              gargc |-> 0, extends |-> None]
        f_0 == FieldDescriptor_boxed(TypeDef_ref(d), element, "f_0")
        set_usize ==
            set_ops(Method_new("Public", FALSE,
                               FnSig_new(<<TypeDef_type(d), USize, element>>, Void),
                               "set_Item", <<>>),
                    <<LDArg(0), LDFieldAdress(f_0), LDArg(1), AddOp, LDArg(2),
                      STObj(element), Ret>>)
        get_adress_usize ==
            set_ops(Method_new("Public", FALSE,
                               FnSig_new(<<TypeDef_type(d), USize>>, Ptr(element)),
                               "get_Address", <<>>),
                    <<LDArg(0), LDFieldAdress(f_0), LDArg(1), AddOp, Ret>>)
        get_item_usize ==
            set_ops(Method_new("Public", FALSE,
                               FnSig_new(<<TypeDef_type(d), USize>>, element),
                               "get_Item", <<>>),
                    <<LDArg(0), LDFieldAdress(f_0), LDArg(1), AddOp, LdObj(element), Ret>>)
    IN [d EXCEPT !.functions = <<set_usize, get_adress_usize, get_item_usize>>]

ElemTypes ==
    LET base == {U8, I32, U32, I64, USize} IN
    base \cup {Ptr(t) : t \in base}
         \cup {Ptr(Ptr(U8)), DotnetType(DotnetTypeRef_new(None, "Foo"))}

InitDef ==
    /\ def = None /\ args = None /\ ret = None
    /\ MethodIdle /\ LinkIdle /\ OpIdle

GetArrayType ==
    /\ \E element_count \in 0..MaxCount, element \in ElemTypes :
          /\ def' = Some(get_array_type(element_count, element))
          /\ args' = Some(<<element_count, element>>)
          /\ ret' = None
    /\ UNCHANGED <<mvars, lvars, ovars>>

NextDef == GetArrayType

SpecDef == InitDef /\ [][NextDef]_vars

RECURSIVE StackSum(_, _, _)
StackSum(ops, from, to) ==
    IF from > to THEN 0 ELSE stack_diff(ops[from]) + StackSum(ops, from + 1, to)

\* the positions a walk may start at: the method start and every label
Starts(ops) == {p \in 1..Len(ops) : p = 1 \/ ops[p][1] = "Label"}

\* the first Ret at or after p (0 if there is none)
MatchingRet(ops, p) ==
    LET rets == {r \in p..Len(ops) : ops[r] = Ret} IN
    IF rets = {} THEN 0 ELSE CHOOSE r \in rets : \A q \in rets : r <= q

\* C3: for every method the core produces, here the three indexer methods of
\* get_array_type, the sum of stack_diff from the method start or any label to the
\* matching Ret is zero.
C3_StackBalanced ==
    def # None =>
        \A k \in 1..Len(def[1].functions) :
            LET ops == def[1].functions[k].ops IN
            \A p \in Starts(ops) :
                MatchingRet(ops, p) # 0 => StackSum(ops, p, MatchingRet(ops, p)) = 0

\* C12: get_array_type(N, T) returns a definition named Arr{N}_{mangle(T)} with
\* exactly N fields f_0 .. f_{N-1} of type T in index order and exactly the three
\* non-static methods set_Item(self, usize, T) -> Void, get_Address(self, usize) -> *T
\* and get_Item(self, usize) -> T, in that order, with the listed bodies.
C12_ArrayShape ==
    def # None =>
        LET d == def[1]
            N == args[1][1]
            T == args[1][2]
            self == DotnetType(DotnetTypeRef_new(None, d.name))
            ldf == <<"LDFieldAdress",
                     [owner |-> DotnetTypeRef_new(None, d.name), tpe |-> T, name |-> "f_0"]>>
            f == d.functions
        IN /\ d.name = "Arr" \o ToString(N) \o "_" \o mangle(T)
           /\ Len(d.fields) = N
           /\ \A k \in 0..(N - 1) : d.fields[k + 1] = <<"f_" \o ToString(k), T>>
           /\ Len(f) = 3
           /\ \A k \in 1..3 : ~f[k].is_static
           /\ f[1].name = "set_Item"
           /\ f[1].sig = [inputs |-> <<self, USize, T>>, output |-> Void]
           /\ f[1].ops = <<LDArg(0), ldf, LDArg(1), <<"Add">>, LDArg(2), <<"STObj", T>>,
                           <<"Ret">> >>
           /\ f[2].name = "get_Address"
           /\ f[2].sig = [inputs |-> <<self, USize>>, output |-> <<"Ptr", T>>]
           /\ f[2].ops = <<LDArg(0), ldf, LDArg(1), <<"Add">>, <<"Ret">> >>
           /\ f[3].name = "get_Item"
           /\ f[3].sig = [inputs |-> <<self, USize>>, output |-> T]
           /\ f[3].ops = <<LDArg(0), ldf, LDArg(1), <<"Add">>, <<"LdObj", T>>, <<"Ret">> >>

\* scenario S2: get_array_type(3, I32) gave Arr3_i with the fields f_0, f_1, f_2
C12_Witness ==
    /\ args = Some(<<3, I32>>) /\ def # None
    /\ def[1].name = "Arr3_i"
    /\ def[1].fields = << <<"f_0", I32>>, <<"f_1", I32>>, <<"f_2", I32>> >>
    /\ Len(def[1].functions) = 3

(***************************************************************************)
(* Field-name escaping.  A name is the sequence of its characters, each a   *)
(* one-character string, so that the first character and the m_ prefix are  *)
(* what they are in the source.                                             *)
(***************************************************************************)
\* char::is_alphabetic, on the characters the model uses
is_alphabetic(c) ==
    c \in {"a", "b", "c", "d", "e", "f", "g", "h", "i", "j", "k", "l", "m", "n",
           "o", "p", "q", "r", "s", "t", "u", "v", "w", "x", "y", "z",
           "A", "V", "Z", "é"}

\* the names the source compares against
ReservedWords ==
    {<<"v", "a", "l", "u", "e">>, <<"f", "l", "a", "g", "s">>,
     <<"a", "l", "i", "g", "n", "m", "e", "n", "t">>, <<"i", "n", "i", "t">>,
     <<"s", "t", "r", "i", "n", "g">>, <<"n", "i", "n", "t">>,
     <<"n", "u", "i", "n", "t">>, <<"o", "u", "t">>, <<"r", "e", "m">>,
     <<"a", "d", "d">>, <<"d", "i", "v">>, <<"e", "r", "r", "o", "r">>,
     <<"o", "p", "t">>, <<"p", "r", "i", "v", "a", "t", "e">>,
     <<"p", "u", "b", "l", "i", "c">>, <<"o", "b", "j", "e", "c", "t">>,
     <<"c", "l", "a", "s", "s">>, <<"0">>}

\* an escape that only looks at the first character
escape_field_name_FirstCharOnly(name) ==
    IF name = <<>> THEN <<"f", "l", "d">>
    ELSE IF ~(is_alphabetic(name[1]) \/ name[1] = "_") THEN <<"m", "_">> \o name
    ELSE name

\* escape_field_name (the eprintln! of a name containing '0' changes no state)
escape_field_name(name) ==
    IF name = <<>> THEN <<"f", "l", "d">>
    ELSE IF \/ ~(is_alphabetic(name[1]) \/ name[1] = "_")
            \/ name \in ReservedWords
         THEN <<"m", "_">> \o name
         ELSE name

\* the longest name built from NameChars
MaxName == 3

NameChars == {"m", "_", "0", "a", "é", "-"}

Names ==
    SeqsUpTo(NameChars, MaxName) \cup ReservedWords
    \cup {<<"_", "c", "o", "u", "n", "t">>, <<"f", "o", "o">>, <<"f", "l", "d">>,
          <<"m", "_", "v", "a", "l", "u", "e">>, <<"V", "a", "l", "u", "e">>}

InitEscape ==
    /\ args = None /\ ret = None /\ def = None
    /\ MethodIdle /\ LinkIdle /\ OpIdle

\* escape_field_name(name), on a name of Names
EscapeFieldName ==
    /\ args = None
    /\ \E name \in Names :
          /\ args' = Some(<<name>>)
          /\ ret' = Some(<<escape_field_name(name)>>)
    /\ UNCHANGED <<def, mvars, lvars, ovars>>

\* escape_field_name applied to the name the previous call returned
EscapeAgain ==
    /\ args # None /\ Len(args[1]) < MaxCalls
    /\ LET name == ret[1][Len(ret[1])]
       IN /\ args' = Some(Append(args[1], name))
          /\ ret' = Some(Append(ret[1], escape_field_name(name)))
    /\ UNCHANGED <<def, mvars, lvars, ovars>>

NextEscape == EscapeFieldName \/ EscapeAgain

SpecEscape == InitEscape /\ [][NextEscape]_vars

\* the calls made so far
EscapeCalls == IF args = None THEN {} ELSE 1..Len(args[1])

\* the escape predicate of the specification, on a name that has a first character
MustEscape(name) ==
    \/ ~(is_alphabetic(name[1]) \/ name[1] = "_")
    \/ name \in ReservedWords

\* C13: for every field name, the empty name included, escape_field_name returns m_
\* followed by the name exactly when the first character is neither a letter nor an
\* underscore or the name is reserved, and the name unchanged in every other case.
\* (The empty name has no first character: either outcome is taken as meeting it.)
C13_EscapeAllNames ==
    \A i \in EscapeCalls :
        LET name == args[1][i]
            out == ret[1][i]
        IN IF name = <<>> THEN out \in {<<"m", "_">>, <<>>}
           ELSE IF MustEscape(name) THEN out = <<"m", "_">> \o name
           ELSE out = name

\* C13 (amended): the statement holds for every non-empty name; the empty name
\* gives fld.
C13_EscapeNonEmpty ==
    \A i \in EscapeCalls :
        LET name == args[1][i]
            out == ret[1][i]
        IN /\ name = <<>> => out = <<"f", "l", "d">>
           /\ name # <<>> =>
                 IF MustEscape(name) THEN out = <<"m", "_">> \o name ELSE out = name

\* a reserved word that starts with a letter was prefixed
C13_Witness ==
    /\ args # None
    /\ args[1][1] = <<"v", "a", "l", "u", "e">>
    /\ ret[1][1] = <<"m", "_", "v", "a", "l", "u", "e">>

\* C14: escape_field_name is idempotent, escape(escape(n)) = escape(n) for every name
\* n, and its result is never one of the reserved words.
C14_Idempotent ==
    \A i \in EscapeCalls :
        /\ ret[1][i] \notin ReservedWords
        /\ (i > 1 /\ args[1][i] = ret[1][i - 1]) => ret[1][i] = ret[1][i - 1]

\* a name that was escaped by the first call went through the second call unchanged
C14_Witness ==
    /\ args # None /\ Len(args[1]) = 2
    /\ args[1][1] = <<"0">>
    /\ args[1][2] = <<"m", "_", "0">> /\ ret[1][2] = <<"m", "_", "0">>

(***************************************************************************)
(* Assembly::sizeof_type.  A VariableType is a tuple whose first element is *)
(* the variant tag; a size is a usize, and a call that ends in panic!() or  *)
(* todo!() has the outcome Panic, which is no usize.                       *)
(***************************************************************************)
Panic == 0 - 1

Pointer(t) == <<"Pointer", t>>
Ref(t) == <<"Ref", t>>
RefMut(t) == <<"RefMut", t>>
Slice(t) == <<"Slice", t>>
Array(element, length) == <<"Array", element, length>>
Tuple(elements) == <<"Tuple", elements>>
VariableType_Struct(struct_name) == <<"Struct", struct_name>>
Enum(enum_name) == <<"Enum", enum_name>>
StrSlice == <<"StrSlice">>
Generic(i) == <<"Generic", i>>

\* CLRType::Array and CLRType::Slice (CLRType::Struct is Struct above)
CLRType_Array(element, length) == <<"Array", element, length>>
CLRType_Slice(element) == <<"Slice", element>>

\* a string slice sized like a slice
PrimSize_StrSliceFat(size_t, t) ==
    CASE t[1] = "Void" -> 0
      [] t[1] \in {"I8", "U8", "Bool"} -> 1
      [] t[1] \in {"I16", "U16"} -> 2
      [] t[1] \in {"I32", "U32", "F32"} -> 4
      [] t[1] \in {"I64", "U64", "F64"} -> 8
      [] t[1] \in {"I128", "U128"} -> 16
      [] t[1] \in {"ISize", "USize", "Ref", "RefMut", "Pointer"} -> size_t
      [] t[1] \in {"Slice", "StrSlice"} -> size_t + size_t
      [] t[1] \in {"Enum", "Generic"} -> Panic

\* a slice sized like a thin pointer
PrimSize_SliceOneWord(size_t, t) ==
    CASE t[1] = "Void" -> 0
      [] t[1] \in {"I8", "U8", "Bool"} -> 1
      [] t[1] \in {"I16", "U16"} -> 2
      [] t[1] \in {"I32", "U32", "F32"} -> 4
      [] t[1] \in {"I64", "U64", "F64"} -> 8
      [] t[1] \in {"I128", "U128"} -> 16
      [] t[1] \in {"ISize", "USize", "Ref", "RefMut", "Pointer", "Slice"} -> size_t
      [] t[1] \in {"Enum", "StrSlice", "Generic"} -> Panic

\* the arms of sizeof_type that do not recurse
PrimSize(size_t, t) ==
    CASE t[1] = "Void" -> 0
      [] t[1] \in {"I8", "U8", "Bool"} -> 1
      [] t[1] \in {"I16", "U16"} -> 2
      [] t[1] \in {"I32", "U32", "F32"} -> 4
      [] t[1] \in {"I64", "U64", "F64"} -> 8
      [] t[1] \in {"I128", "U128"} -> 16
      [] t[1] \in {"ISize", "USize", "Ref", "RefMut", "Pointer"} -> size_t
      [] t[1] = "Slice" -> size_t + size_t
      [] t[1] \in {"Enum", "StrSlice", "Generic"} -> Panic

\* an array one element too long
ArrayBytes_OneMore(element_size, length) ==
    IF element_size = Panic THEN Panic ELSE element_size * (length + 1)

\* self.sizeof_type(element) * length: the element is sized first
ArrayBytes(element_size, length) ==
    IF element_size = Panic THEN Panic ELSE element_size * length

RECURSIVE sizeof_type(_, _)
RECURSIVE SizeSum(_, _, _)
\* .map(|element| self.sizeof_type(element)).sum::<usize>() over ts[i..]
SizeSum(self, ts, i) ==
    IF i > Len(ts) THEN 0
    ELSE LET head == sizeof_type(self, ts[i])
             rest == SizeSum(self, ts, i + 1)
         IN IF head = Panic \/ rest = Panic THEN Panic ELSE head + rest

\* Assembly::sizeof_type
sizeof_type(self, var_type) ==
    CASE var_type[1] = "Array" ->
             ArrayBytes(sizeof_type(self, var_type[2]), var_type[3])
      [] var_type[1] = "Tuple" -> SizeSum(self, var_type[2], 1)
      [] var_type[1] = "Struct" ->
             IF var_type[2] \notin DOMAIN self.types THEN Panic
             ELSE LET clr == self.types[var_type[2]]
                  IN (CASE clr[1] = "Struct" ->
                               SizeSum(self, [k \in 1..Len(clr[2]) |-> clr[2][k][2]], 1)
                        [] clr[1] = "Array" ->
                               ArrayBytes(sizeof_type(self, clr[2]), clr[3])
                        [] clr[1] = "Slice" -> Panic)
      [] OTHER -> PrimSize(self.size_t, var_type)

\* the longest array and the longest tuple whose size is asked
MaxLength == 3
MaxTuple == 2

PrimTypes ==
    {<<tag>> : tag \in {"Void", "I8", "U8", "Bool", "I16", "U16", "I32", "U32", "F32",
                        "I64", "U64", "F64", "I128", "U128", "ISize", "USize"}}

\* the type table of the assembly whose sizes are asked
SizeTable ==
    [Foo |-> FooDefA,
     Pair |-> PairDef,
     Nest |-> Struct(<< <<"p", VariableType_Struct("Pair")>>,
                        <<"q", Array(I64, 2)>>, <<"r", Pointer(StrSlice)>> >>),
     Arr |-> CLRType_Array(I32, 3),
     ArrOfPair |-> CLRType_Array(VariableType_Struct("Pair"), 2),
     Sl |-> CLRType_Slice(U8),
     HasStr |-> Struct(<< <<"a", I32>>, <<"s", StrSlice>> >>),
     HasGeneric |-> Struct(<< <<"g", Generic(0)>>, <<"a", I32>> >>),
     HasEnum |-> Struct(<< <<"e", Enum("E")>> >>),
     ArrOfStr |-> CLRType_Array(StrSlice, 0)]

SizeAssembly == [methods |-> <<>>, name |-> "sizes", types |-> SizeTable, size_t |-> 8]

NamedTypes ==
    {VariableType_Struct(n) : n \in DOMAIN SizeTable \cup {"Missing"}}

Unsized == {StrSlice, Generic(0), Generic(1), Enum("E")}

SizeLeaves == PrimTypes \cup NamedTypes \cup Unsized

TupleMembers ==
    {I32, U8, Pointer(Void), StrSlice, Generic(0), Enum("E"), Slice(I32),
     VariableType_Struct("Pair"), Array(U8, 3)}

SizeLevel1 ==
    SizeLeaves
    \cup {<<w, t>> : w \in {"Pointer", "Ref", "RefMut", "Slice"}, t \in SizeLeaves}
    \cup {Array(t, n) : t \in SizeLeaves, n \in 0..MaxLength}
    \cup {Tuple(ts) : ts \in SeqsUpTo(TupleMembers, MaxTuple)}
    \cup {Tuple(<<I32, U8, Pointer(Void)>>)}

SizeTypes ==
    SizeLevel1
    \cup {Slice(t) : t \in SizeLevel1}
    \cup {Array(t, n) : t \in SizeLevel1, n \in 0..MaxLength}

InitSize ==
    /\ args = None /\ ret = None /\ def = None
    /\ MethodIdle /\ LinkIdle /\ OpIdle

\* assembly.sizeof_type(&var_type)
SizeofType ==
    /\ args = None
    /\ \E asm \in {SizeAssembly, Assembly_empty}, var_type \in SizeTypes :
          /\ args' = Some(<<asm, var_type>>)
          /\ ret' = Some(sizeof_type(asm, var_type))
    /\ UNCHANGED <<def, mvars, lvars, ovars>>

NextSize == SizeofType

SpecSize == InitSize /\ [][NextSize]_vars

\* the call whose result the state holds
SizeAsm == args[1][1]
SizeArg == args[1][2]
SizeRet == ret[1]

RECURSIVE SumOf(_, _)
SumOf(ns, i) == IF i > Len(ns) THEN 0 ELSE ns[i] + SumOf(ns, i + 1)

\* the sizes of the members of a tuple or the fields' types of a struct
SizesOf(asm, ts) == [k \in 1..Len(ts) |-> sizeof_type(asm, ts[k])]

AllSized(ns) == \A k \in 1..Len(ns) : ns[k] # Panic

\* C15: whenever both sides are defined, sizeof_type(Array{T, N}) = N * sizeof_type(T)
\* and sizeof_type(Tuple[T1..Tk]) is the sum of the sizeof_type(Ti) with no padding
\* (Tuple[I32, U8, Ptr(Void)] is 13 at pointer width 8); a named struct has the sum of
\* its field sizes and a named array its element size times its length.
C15_SizeLaws ==
    args # None =>
        LET t == SizeArg
            asm == SizeAsm
            named == asm.types[t[2]]
        IN /\ (t[1] = "Array" /\ SizeRet # Panic /\ sizeof_type(asm, t[2]) # Panic) =>
                  SizeRet = t[3] * sizeof_type(asm, t[2])
           /\ (t[1] = "Tuple" /\ SizeRet # Panic /\ AllSized(SizesOf(asm, t[2]))) =>
                  SizeRet = SumOf(SizesOf(asm, t[2]), 1)
           /\ (t = Tuple(<<I32, U8, Pointer(Void)>>) /\ asm.size_t = 8) => SizeRet = 13
           /\ (t[1] = "Struct" /\ t[2] \in DOMAIN asm.types /\ SizeRet # Panic) =>
                  /\ named[1] = "Struct" =>
                        LET ns == SizesOf(asm, [k \in 1..Len(named[2]) |-> named[2][k][2]])
                        IN AllSized(ns) => SizeRet = SumOf(ns, 1)
                  /\ (named[1] = "Array" /\ sizeof_type(asm, named[2]) # Panic) =>
                        SizeRet = sizeof_type(asm, named[2]) * named[3]

\* the size of Tuple[I32, U8, Pointer(Void)] was asked and is 13
C15_Witness ==
    /\ args # None
    /\ SizeArg = Tuple(<<I32, U8, Pointer(Void)>>) /\ SizeAsm.size_t = 8
    /\ SizeRet = 13

\* var_type is a string slice, a generic parameter or a named enum, or holds one as
\* the element of an array, a tuple member or a field of a named struct
RECURSIVE HoldsUnsized(_, _)
HoldsUnsized(asm, t) ==
    \/ t[1] \in {"StrSlice", "Generic", "Enum"}
    \/ t[1] = "Array" /\ HoldsUnsized(asm, t[2])
    \/ t[1] = "Tuple" /\ \E k \in 1..Len(t[2]) : HoldsUnsized(asm, t[2][k])
    \/ /\ t[1] = "Struct" /\ t[2] \in DOMAIN asm.types
       /\ asm.types[t[2]][1] = "Struct"
       /\ \E k \in 1..Len(asm.types[t[2]][2]) :
              HoldsUnsized(asm, asm.types[t[2]][2][k][2])

\* C16: sizeof_type never returns a number for a string slice, a generic parameter or
\* a named enum, each raises an error, also when the type occurs nested as the element
\* of an array, a tuple member or a field of a named struct whose size is asked.
C16_UnsizedPanics ==
    args # None => (HoldsUnsized(SizeAsm, SizeArg) => SizeRet = Panic)

\* the size of a zero-length array of a struct with a string slice field was asked
C16_Witness ==
    /\ args # None
    /\ SizeArg = Array(VariableType_Struct("HasStr"), 0) /\ SizeAsm = SizeAssembly
    /\ SizeRet = Panic

\* C17: sizeof_type(Slice(T)) returns twice the pointer width for every element type
\* T, whatever T is (16 at pointer width 8); it raises no error.
C17_SliceTwoWords ==
    (args # None /\ SizeArg[1] = "Slice") =>
        /\ SizeRet # Panic
        /\ SizeRet = 2 * SizeAsm.size_t
        /\ SizeAsm.size_t = 8 => SizeRet = 16

\* the size of a slice of string slices was asked and is 16
C17_Witness ==
    /\ args # None
    /\ SizeArg = Slice(StrSlice) /\ SizeAsm.size_t = 8
    /\ SizeRet = 16

(***************************************************************************)
(* Claims about the output kind.                                           *)
(***************************************************************************)
\* the positions of character c in s
PositionsOf(s, c) == {i \in 1..Len(s) : s[i] = c}

Last(S) == CHOOSE i \in S : \A j \in S : j <= i

\* the file name of a path: what follows the last /
FileName(p) ==
    IF PositionsOf(p, "/") = {} THEN p
    ELSE SubSeq(p, Last(PositionsOf(p, "/")) + 1, Len(p))

\* the extension of a file name, dot included: what starts at the last dot that is
\* not the first character; <<>> if there is none
Extension(p) ==
    LET f == FileName(p)
        dots == PositionsOf(f, ".") \ {1}
    IN IF dots = {} THEN <<>> ELSE SubSeq(f, Last(dots), Len(f))

\* C18: the linker emits a library exactly when the extension of the output file name
\* is .dll, .so or .o, and an executable for every other output name.
C18_LibIffExtension ==
    phase = "exported" =>
        (is_lib[1] <=> Extension(path[1]) \in {<<".", "d", "l", "l">>, <<".", "s", "o">>,
                                                 <<".", "o">>})

(***************************************************************************)
(* CILOp::stack_diff on one op of every variant.                           *)
(***************************************************************************)
\* the longest input list of a call site
MaxInputs == 2

\* call sites; a site that is not static names its receiver as its first input
DiffSites ==
    {CallSite_new(class, "f", FnSig_new(inputs, output), is_static) :
        class \in {None, Some(ExceptionClass)},
        inputs \in SeqsUpTo({I32, Ptr(U8)}, MaxInputs),
        output \in {Void, I32},
        is_static \in BOOLEAN}
    \ {site \in {CallSite_new(class, "f", FnSig_new(<<>>, output), FALSE) :
                    class \in {None, Some(ExceptionClass)}, output \in {Void, I32}} : TRUE}

PlainTags ==
    {"Nop", "Ret", "Throw", "Rethrow", "Pop", "Dup", "LocAlloc", "LdNull", "CpBlk", "Not",
     "Neg", "FreeTMPLocal", "LoadTMPLocal", "LoadAddresOfTMPLocal", "SetTMPLocal"}
    \cup LDIndTags \cup STIndTags \cup BinaryTags

IndexTags ==
    BranchTags \cup {"Label", "LDLoc", "LDArg", "STLoc", "STArg", "LDLocA", "LDArgA",
                     "LdcI32", "LdcI64", "LdcF32", "LdcF64", "LoadUnderTMPLocal",
                     "LoadAdressUnderTMPLocal"}

DiffOps ==
    {<<t>> : t \in PlainTags}
    \cup {<<t, n>> : t \in IndexTags, n \in Labels}
    \cup {<<t, b>> : t \in ConvTags, b \in BOOLEAN}
    \cup {<<t, site>> : t \in {"Call", "CallVirt", "NewObj"}, site \in DiffSites}
    \cup {<<t, tpe>> : t \in {"LdObj", "STObj", "SizeOf", "NewTMPLocal"}, tpe \in {U8, I32}}
    \cup {<<t, FieldDescriptor_boxed(DotnetTypeRef_new(None, "Foo"), I32, "x")>> :
             t \in {"LDField", "LDFieldAdress", "STField"}}
    \cup {<<t, [owner |-> None, tpe |-> U8, name |-> "environ"]>> :
             t \in {"LDStaticField", "STStaticField"}}
    \cup {LdStr("msg"), <<"Comment", "note">>, <<"LoadGlobalAllocPtr", [alloc_id |-> 0]>>}

InitDiff ==
    /\ args = None /\ ret = None /\ def = None
    /\ MethodIdle /\ LinkIdle /\ OpIdle

\* o.stack_diff()
StackDiff ==
    /\ args = None
    /\ \E o \in DiffOps :
          /\ args' = Some(<<o>>)
          /\ ret' = Some(stack_diff(o))
    /\ UNCHANGED <<def, mvars, lvars, ovars>>

NextDiff == StackDiff

SpecDiff == InitDiff /\ [][NextDiff]_vars

\* the op whose stack_diff the state holds, its variant and the value returned
DiffOp == args[1][1]
DiffTag == args[1][1][1]
DiffRet == ret[1]

\* C25: for Call and CallVirt stack_diff is (1 if the site's output is not Void, else
\* 0) minus the number of the site's signature inputs; for NewObj it is 1 minus the
\* number of the site's explicit inputs (all inputs of a static site, all but the
\* receiver of an instance site).
C25_CallDiff ==
    args # None =>
        LET site == DiffOp[2]
            n == Len(site.signature.inputs)
        IN /\ DiffTag \in {"Call", "CallVirt"} =>
                 DiffRet = (IF site.signature.output # <<"Void">> THEN 1 ELSE 0) - n
           /\ DiffTag = "NewObj" =>
                 DiffRet = 1 - (IF site.is_static THEN n ELSE n - 1)

\* a call of a Void instance site with two inputs pops both and pushes nothing
C25_Witness ==
    /\ args # None /\ DiffTag = "CallVirt"
    /\ DiffOp[2].signature = [inputs |-> <<I32, Ptr(U8)>>, output |-> Void]
    /\ ~DiffOp[2].is_static
    /\ DiffRet = 0 - 2

StoreTags ==
    {"STLoc", "STArg", "STObj", "STField", "STStaticField"} \cup STIndTags

\* loads of an argument, a local or a static field, and their addresses
DirectLoadTags == {"LDArg", "LDArgA", "LDLoc", "LDLocA", "LDStaticField"}

\* loads that pop the address or object they read through
IndirectLoadTags == {"LDField", "LDFieldAdress", "LdObj"} \cup LDIndTags

ConstantTags == {"LdcI32", "LdcI64", "LdcF32", "LdcF64", "LdStr", "LdNull", "SizeOf"}

TmpLoadTags ==
    {"LoadTMPLocal", "LoadAddresOfTMPLocal", "LoadUnderTMPLocal", "LoadAdressUnderTMPLocal"}

\* the values the claim and the amended claim agree on
DiffTableCommon ==
    /\ DiffTag \in StoreTags => DiffRet \in {0 - 1, 0 - 2}
    /\ DiffTag \in DirectLoadTags \cup ConstantTags => DiffRet = 1
    /\ DiffTag \in BinaryTags => DiffRet = 0 - 1
    /\ DiffTag \in {"Not", "Neg"} \cup ConvTags => DiffRet = 0
    /\ DiffTag = "CpBlk" => DiffRet = 0 - 3
    /\ DiffTag \in {"NewTMPLocal", "FreeTMPLocal"} => DiffRet = 0
    /\ DiffTag \in TmpLoadTags => DiffRet = 1
    /\ DiffTag = "SetTMPLocal" => DiffRet = 0 - 1

\* C26: stack_diff is total over all op variants and returns -1 or -2 for every branch
\* (GoTo, BEq, BNe, BLt, BGe, BLe, BZero, BTrue) and every store, +1 for every load
\* and every constant push, -1 for binary arithmetic and comparisons, 0 for unary
\* Not/Neg and conversions, -3 for CpBlk, 0 for NewTMPLocal and FreeTMPLocal, +1 for
\* the synthetic TMP loads and -1 for SetTMPLocal.
C26_DiffTable ==
    args # None =>
        /\ DiffRet \in Int
        /\ DiffTag \in BranchTags => DiffRet \in {0 - 1, 0 - 2}
        /\ DiffTableCommon

\* C26 (amended): as stated, except that GoTo has stack_diff 0 (only the conditional
\* branches pop: BZero and BTrue one operand, BEq, BNe, BLt, BGe and BLe two), and
\* that the loads through an address or object (LDInd*, LDField, LDFieldAdress, LdObj)
\* have stack_diff 0; the loads of arguments, locals and static fields give +1.
C26_DiffTableGoToZero ==
    args # None =>
        /\ DiffRet \in Int
        /\ DiffTag = "GoTo" => DiffRet = 0
        /\ DiffTag \in {"BZero", "BTrue"} => DiffRet = 0 - 1
        /\ DiffTag \in {"BEq", "BNe", "BLt", "BGe", "BLe"} => DiffRet = 0 - 2
        /\ DiffTag \in IndirectLoadTags => DiffRet = 0
        /\ DiffTableCommon

\* stack_diff of an unconditional branch was asked and is 0
C26_Witness ==
    args # None /\ DiffOp = GoTo(1) /\ DiffRet = 0

\* C28: allocate_temporaries preserves the stack effect position by position: at every
\* index the op after the pass has the stack_diff of the op before it, so every
\* prefix sum and the total stack delta of the method are unchanged by the pass.
C28_StackEffectKept ==
    stage = "allocated" =>
        /\ Len(method.ops) = Len(input.ops)
        /\ \A i \in 1..Len(input.ops) :
              /\ stack_diff(method.ops[i]) = stack_diff(input.ops[i])
              /\ StackSum(method.ops, 1, i) = StackSum(input.ops, 1, i)

\* every kind of replacement at once: Nop for New/Free, LDLoc and LDLocA for the
\* loads, with the prefix sums 0, 0, 1, 2, 2, 3, 3 before and after
C28_Witness ==
    /\ stage = "allocated" /\ input.ops = NestedOps
    /\ method.ops # input.ops
    /\ StackSum(method.ops, 1, 7) = 3 /\ StackSum(input.ops, 1, 7) = 3

\* the field descriptors the ops of a method use
FieldsUsed(m) ==
    {m.ops[i][2] : i \in {k \in 1..Len(m.ops) :
                             m.ops[k][1] \in {"LDField", "LDFieldAdress", "STField"}}}

\* C29: for every element count N, N = 0 included, each field descriptor used by the
\* ops of the three methods get_array_type generates names a field (f_0, of type T)
\* that is present in the field list of the returned definition.
C29_FieldsPresent ==
    def # None =>
        LET d == def[1] IN
        \A k \in 1..Len(d.functions) :
            \A fd \in FieldsUsed(d.functions[k]) :
                /\ fd.owner = TypeDef_ref(d)
                /\ \E i \in 1..Len(d.fields) : d.fields[i] = <<fd.name, fd.tpe>>

\* C30: escape_field_name maps distinct field names to distinct escaped names: any two
\* calls on different names return different names.
C30_EscapeInjective ==
    \A i, j \in EscapeCalls :
        args[1][i] # args[1][j] => ret[1][i] # ret[1][j]

====
